---- MODULE Spec2Model ----
(***************************************************************************)
(* Model of src/trading_system.py: the ledger operations of                *)
(* StockTradingSystem (register_stock, take_loan, buy_stock, sell_stock,   *)
(* update_stock_prices) run by concurrent request threads against one      *)
(* SQLite database.                                                        *)
(*                                                                         *)
(* Every call opens a connection of its own (DatabaseManager.              *)
(* get_connection).  With the sqlite3 module's default isolation level a   *)
(* SELECT runs outside any transaction and reads the last committed state; *)
(* the first INSERT/UPDATE/DELETE of a connection opens a transaction and  *)
(* takes the database's single write lock, which is held until commit,     *)
(* rollback or close.  A connection that cannot get the write lock within  *)
(* the busy timeout raises sqlite3.OperationalError.  Hence one step per   *)
(* SELECT, one step that takes the write lock, and one step that commits   *)
(* all the writes of the call.                                             *)
(*                                                                         *)
(* Money is in whole currency units; avg_buy_price is an exact fraction    *)
(* avg_n / avg_d (the code's REAL division, without rounding).             *)
(***************************************************************************)
EXTENDS Integers, Sequences, FiniteSets, TLC

VARIABLES
    users,          \* users table: id -> [balance, loan_amount, max_loan]
    stocks,         \* stocks table: symbol -> [rowid, current_price, available_quantity]
    price_history,  \* stock_price_history table, in insertion order
    portfolios,     \* user_portfolios table: user -> symbol -> position
    transactions,   \* transactions table, in insertion order
    loans,          \* loans table, in insertion order
    writer,         \* the connection holding the database write lock
    pc,             \* per thread: position inside the running call
    op,             \* per thread: arguments and local variables of the running call
    result,         \* per thread: what the last finished call returned
    tick_pc,        \* position of update_stock_prices
    tick_snap,      \* update_stock_prices: the rows read by its SELECT
    minted,         \* history: quantity each stock was seeded/registered with
    fills,          \* history: per position, quantity and cost of the buy fills since it was created
    ncalls,         \* number of calls started (bounded by MaxOps)
    nticks,         \* number of price updates started (bounded by MaxTicks)
    price_update_thread,  \* self.price_update_thread: the periodic thread last created
    stop_price_updates,   \* self.stop_price_updates
    upd,            \* per runner of update_stock_prices: position and the rows it read
    join_target,    \* per thread: the thread a stop_price_update_thread call joins
    rep,            \* per thread: what a running get_user_report has read so far
    report,         \* per thread: the last report returned
    cands,          \* history, per thread: the user report of every state committed during its get_user_report
    clean,          \* history, per thread: no start call has overlapped its running stop call
    quiesced        \* history: such a stop call has returned and no start call was made since

db == <<users, stocks, price_history, portfolios, transactions, loans>>
sched == <<price_update_thread, stop_price_updates, upd, join_target, clean, quiesced>>
reports == <<rep, report, cands>>
ext == <<sched, reports>>
vars == <<users, stocks, price_history, portfolios, transactions, loans, writer,
          pc, op, result, tick_pc, tick_snap, minted, fills, ncalls, nticks, ext>>

----------------------------------------------------------------------------
\* Bounds of the model

MaxOps == 3
MaxTicks == 1
NumSeedStocks == 1
NumUsers == 2
MaxSchedCalls == 4
MaxThreads == 3
MaxRounds == 2

----------------------------------------------------------------------------
\* Program constants

InitialBalance == 10000
DefaultMaxLoan == 100000
MinPrice == 1
MaxPrice == 100
MaxChangePermille == 100

sample_stocks ==
    << [symbol |-> "AAPL",  price |-> 150, quantity |-> 1000],
       [symbol |-> "GOOGL", price |-> 80,  quantity |-> 800],
       [symbol |-> "MSFT",  price |-> 90,  quantity |-> 900],
       [symbol |-> "TSLA",  price |-> 75,  quantity |-> 600],
       [symbol |-> "AMZN",  price |-> 85,  quantity |-> 700] >>

SeedIndex == 1 .. (IF NumSeedStocks < Len(sample_stocks) THEN NumSeedStocks ELSE Len(sample_stocks))
SeedSymbols == { sample_stocks[i].symbol : i \in SeedIndex }

UserName(i) ==
    CASE i = 1 -> "user_1" [] i = 2 -> "user_2" [] i = 3 -> "user_3"
      [] i = 4 -> "user_4" [] i = 5 -> "user_5" [] i = 6 -> "user_6"
      [] i = 7 -> "user_7" [] i = 8 -> "user_8" [] i = 9 -> "user_9"
      [] OTHER -> "user_10"
Users == { UserName(i) : i \in 1 .. (IF NumUsers < 10 THEN NumUsers ELSE 10) }

Threads == {"t1", "t2"}
NoWriter == "none"
Ticker == "ticker"

\* the periodic threads start_price_updates can create, in creation order
PeriodicName(i) == CASE i = 1 -> "p1" [] i = 2 -> "p2" [] i = 3 -> "p3" [] OTHER -> "p4"
Periodic == { PeriodicName(i) : i \in 1 .. (IF MaxThreads < 4 THEN MaxThreads ELSE 4) }
NoThread == "None"
\* who can run update_stock_prices: a periodic thread, or a request thread
\* serving a force-price-update call
Runners == Periodic \cup Threads

\* str.upper() on the symbols the model's callers send
Upper(s) ==
    CASE s = "xyz" -> "XYZ"
      [] s = "Xyz" -> "XYZ"
      [] s = "aapl" -> "AAPL"
      [] OTHER -> s

Symbols == SeedSymbols \cup {"XYZ"}

----------------------------------------------------------------------------
\* Rows

NoStock == [rowid |-> 0, current_price |-> 0, available_quantity |-> 0]
NoPos == [present |-> FALSE, quantity |-> 0, avg_n |-> 0, avg_d |-> 1]
NoOp == [kind |-> "none", user |-> "", sym |-> "", qty |-> 0, price |-> 0,
         avail |-> 0, bal |-> 0, loan |-> 0, pqty |-> 0]
NoFill == [q |-> 0, c |-> 0]
NoUpdate == [pc |-> "none", snap |-> [s \in Symbols |-> NoStock]]
NoRep == [balance |-> 0, loan_amount |-> 0, portfolio_value |-> 0, unrealized_n |-> 0,
          unrealized_d |-> 1, portfolio |-> [s \in Symbols |-> NoPos]]
NoReport == [kind |-> "none"]

HasStock(s) == stocks[s].rowid # 0
StockCount == Cardinality({ s \in Symbols : HasStock(s) })

RECURSIVE Gcd(_, _)
Gcd(a, b) == IF b = 0 THEN a ELSE Gcd(b, a % b)
Abs(x) == IF x < 0 THEN -x ELSE x

\* the fraction n/d in lowest terms with a positive denominator (d # 0)
Frac(n, d) ==
    LET g == Gcd(Abs(n), Abs(d))
        sgn == IF d < 0 THEN -1 ELSE 1
    IN  [n |-> sgn * (n \div g), d |-> sgn * (d \div g)]

Clamp(p) == IF p < MinPrice THEN MinPrice ELSE IF p > MaxPrice THEN MaxPrice ELSE p

----------------------------------------------------------------------------
\* What callers send.  A request names the operation and its arguments; qty is
\* the quantity of a buy/sell/register and the amount of a loan.

Request(kind, user, sym, qty, price) ==
    [kind |-> kind, user |-> user, sym |-> sym, qty |-> qty, price |-> price]

UserIds == Users \cup {"nobody"}
InputSymbols == {"AAPL", "xyz"}
Quantities == {1, 2, 100}
SellQuantities == {1}
Amounts == {60000}
RegPrices == {50, 200}
RegQuantities == {1}
Changes == {-MaxChangePermille, MaxChangePermille}

TradeRequests(k, Q) ==
    { Request(k, u, s, q, 0) : u \in UserIds, s \in InputSymbols, q \in Q }
LoanRequests(A) == { Request("loan", u, "", a, 0) : u \in UserIds, a \in A }
RegisterRequests ==
    { Request("register", "", s, q, p) : s \in InputSymbols, q \in RegQuantities, p \in RegPrices }

Requests ==
    TradeRequests("buy", Quantities) \cup TradeRequests("sell", SellQuantities)
        \cup LoanRequests(Amounts) \cup RegisterRequests

----------------------------------------------------------------------------
\* setup_initial_data: the sample stocks with their first price-history row,
\* and the test users; the module then starts the price updates (the first
\* periodic thread is about to test its loop condition)

SeedStock(s) ==
    LET i == CHOOSE j \in SeedIndex : sample_stocks[j].symbol = s
    IN  [rowid |-> i, current_price |-> sample_stocks[i].price,
         available_quantity |-> sample_stocks[i].quantity]

SeedHistory ==
    [i \in SeedIndex |-> [sym |-> sample_stocks[i].symbol, price |-> sample_stocks[i].price]]

Init ==
    /\ users = [u \in Users |->
                  [balance |-> InitialBalance, loan_amount |-> 0, max_loan |-> DefaultMaxLoan]]
    /\ stocks = [s \in Symbols |-> IF s \in SeedSymbols THEN SeedStock(s) ELSE NoStock]
    /\ price_history = SeedHistory
    /\ portfolios = [u \in Users |-> [s \in Symbols |-> NoPos]]
    /\ transactions = << >>
    /\ loans = << >>
    /\ writer = NoWriter
    /\ pc = [t \in Threads |-> "idle"]
    /\ op = [t \in Threads |-> NoOp]
    /\ result = [t \in Threads |-> "none"]
    /\ tick_pc = "idle"
    /\ tick_snap = [s \in Symbols |-> NoStock]
    /\ minted = [s \in Symbols |-> IF s \in SeedSymbols THEN SeedStock(s).available_quantity ELSE 0]
    /\ fills = [u \in Users |-> [s \in Symbols |-> NoFill]]
    /\ ncalls = 0
    /\ nticks = 0
    /\ price_update_thread = PeriodicName(1)
    /\ stop_price_updates = FALSE
    /\ upd = [r \in Runners |-> IF r = PeriodicName(1) THEN [NoUpdate EXCEPT !.pc = "check"]
                                                       ELSE NoUpdate]
    /\ join_target = [t \in Threads |-> NoThread]
    /\ clean = [t \in Threads |-> FALSE]
    /\ quiesced = FALSE
    /\ rep = [t \in Threads |-> NoRep]
    /\ report = [t \in Threads |-> NoReport]
    /\ cands = [t \in Threads |-> {}]

----------------------------------------------------------------------------
\* What get_user_report computes, as functions of the tables it reads

RECURSIVE SumOver(_, _)
SumOver(S, f) ==
    IF S = {} THEN 0
    ELSE LET x == CHOOSE y \in S : TRUE IN f[x] + SumOver(S \ {x}, f)

\* a + b for fractions
FracAdd(a, b) == Frac(a.n * b.d + b.n * a.d, a.d * b.d)

RECURSIVE SumFrac(_, _)
SumFrac(S, f) ==
    IF S = {} THEN [n |-> 0, d |-> 1]
    ELSE LET x == CHOOSE y \in S : TRUE IN FracAdd(f[x], SumFrac(S \ {x}, f))

\* SELECT balance, loan_amount FROM users WHERE id = ? (lines 508-511)
ReadUserRow(us, u) == [balance |-> us[u].balance, loan_amount |-> us[u].loan_amount]

\* the holdings of user u joined with the stocks' current prices, and the
\* sums of the loop over them (lines 518-550): position_value = qty *
\* current_price, position_pnl = qty * (current_price - avg_price)
ReadHoldings(pfs, sts, u) ==
    LET held == { s \in Symbols : pfs[u][s].present }
        unrealized == SumFrac(held, [s \in held |->
                          Frac(pfs[u][s].quantity
                                 * (sts[s].current_price * pfs[u][s].avg_d - pfs[u][s].avg_n),
                               pfs[u][s].avg_d)])
    IN  [portfolio_value |-> SumOver(held, [s \in held |->
                                 pfs[u][s].quantity * sts[s].current_price]),
         unrealized_n |-> unrealized.n,
         unrealized_d |-> unrealized.d,
         portfolio |-> [s \in Symbols |->
                          IF s \in held
                            THEN [symbol |-> s, quantity |-> pfs[u][s].quantity,
                                  avg_n |-> pfs[u][s].avg_n, avg_d |-> pfs[u][s].avg_d,
                                  current_price |-> sts[s].current_price]
                            ELSE [symbol |-> ""]]]

\* SUM(total_amount) of the user's SELL and BUY rows (lines 553-562)
ReadTransactionSums(txs, u) ==
    LET sells == { i \in 1 .. Len(txs) : txs[i].user = u /\ txs[i].type = "SELL" }
        buys == { i \in 1 .. Len(txs) : txs[i].user = u /\ txs[i].type = "BUY" }
    IN  [total_sales |-> SumOver(sells, [i \in sells |-> txs[i].total_amount]),
         total_purchases |-> SumOver(buys, [i \in buys |-> txs[i].total_amount])]

\* net_worth leaves the loan out: balance + portfolio_value
MakeUserReportIgnoresLoan(u, user, holdings, sums) ==
    LET net_worth == user.balance + holdings.portfolio_value IN
      [kind |-> "user", user |-> u,
       balance |-> user.balance,
       loan_amount |-> user.loan_amount,
       portfolio_value |-> holdings.portfolio_value,
       net_worth |-> net_worth,
       total_pnl |-> net_worth - InitialBalance,
       unrealized_n |-> holdings.unrealized_n,
       unrealized_d |-> holdings.unrealized_d,
       realized_pnl |-> sums.total_sales - sums.total_purchases,
       total_purchases |-> sums.total_purchases,
       total_sales |-> sums.total_sales,
       portfolio |-> holdings.portfolio]

\* the returned report (lines 564-587)
MakeUserReport(u, user, holdings, sums) ==
    LET net_worth == user.balance + holdings.portfolio_value - user.loan_amount IN
      [kind |-> "user", user |-> u,
       balance |-> user.balance,
       loan_amount |-> user.loan_amount,
       portfolio_value |-> holdings.portfolio_value,
       net_worth |-> net_worth,
       total_pnl |-> net_worth - InitialBalance,
       unrealized_n |-> holdings.unrealized_n,
       unrealized_d |-> holdings.unrealized_d,
       realized_pnl |-> sums.total_sales - sums.total_purchases,
       total_purchases |-> sums.total_purchases,
       total_sales |-> sums.total_sales,
       portfolio |-> holdings.portfolio]

\* the report of user u computed from one state of the tables
UserReportIn(us, pfs, sts, txs, u) ==
    MakeUserReport(u, ReadUserRow(us, u), ReadHoldings(pfs, sts, u), ReadTransactionSums(txs, u))

\* every commit is seen by the get_user_report calls under way
Observed ==
    cands' = [t \in Threads |->
                IF op[t].kind = "user_report" /\ op[t].user \in Users
                  THEN cands[t] \cup {UserReportIn(users', portfolios', stocks', transactions',
                                                   op[t].user)}
                  ELSE cands[t]]

----------------------------------------------------------------------------
\* Calls and returns

FirstPc(kind) ==
    CASE kind = "buy" -> "buy_stock"
      [] kind = "sell" -> "sell_stock"
      [] kind = "loan" -> "loan_user"
      [] OTHER -> "reg_write"

\* a request thread enters one of the operations
StartCall(t, reqs) ==
    /\ pc[t] = "idle"
    /\ ncalls < MaxOps
    /\ \E r \in reqs :
         /\ op' = [op EXCEPT ![t] = [NoOp EXCEPT !.kind = r.kind, !.user = r.user,
                                                 !.sym = r.sym, !.qty = r.qty,
                                                 !.price = r.price]]
         /\ pc' = [pc EXCEPT ![t] = FirstPc(r.kind)]
    /\ ncalls' = ncalls + 1
    /\ UNCHANGED <<db, writer, result, tick_pc, tick_snap, minted, fills, nticks, ext>>

\* the call of thread t ends with outcome r
Return(t, r) ==
    /\ pc' = [pc EXCEPT ![t] = "idle"]
    /\ op' = [op EXCEPT ![t] = NoOp]
    /\ result' = [result EXCEPT ![t] = r]

Goto(t, next, locals) ==
    /\ pc' = [pc EXCEPT ![t] = next]
    /\ op' = [op EXCEPT ![t] = locals]
    /\ UNCHANGED result

NoWrite == UNCHANGED <<db, writer, tick_pc, tick_snap, minted, fills, ncalls, nticks, ext>>

----------------------------------------------------------------------------
\* The write lock.  The first INSERT/UPDATE of a call takes it; a call that
\* finds it held by another connection either waits (this step is not yet
\* enabled) or gives up after the busy timeout (Busy below).

WritePcs == {"buy_write", "sell_write", "loan_write"}

CommitPc(p) ==
    CASE p = "buy_write" -> "buy_commit"
      [] p = "sell_write" -> "sell_commit"
      [] OTHER -> "loan_commit"

AcquireWriteLock(t) ==
    /\ pc[t] \in WritePcs
    /\ writer = NoWriter
    /\ writer' = t
    /\ pc' = [pc EXCEPT ![t] = CommitPc(pc[t])]
    /\ UNCHANGED <<db, op, result, tick_pc, tick_snap, minted, fills, ncalls, nticks, ext>>

\* sqlite3.OperationalError("database is locked") at the first write.
\* buy_stock and sell_stock catch it, roll back and return a failure;
\* take_loan and register_stock have no handler for it and raise.
BusyOutcome(kind) == IF kind \in {"buy", "sell"} THEN "locked" ELSE "raised"

\* the connection has no busy timeout: the first write waits for the lock
BusyWaits(t) ==
    /\ pc[t] \in WritePcs \cup {"reg_write"}
    /\ writer # NoWriter
    /\ UNCHANGED vars

Busy(t) ==
    /\ pc[t] \in WritePcs \cup {"reg_write"}
    /\ writer # NoWriter
    /\ Return(t, BusyOutcome(op[t].kind))
    /\ NoWrite

----------------------------------------------------------------------------
\* buy_stock

BuyReadStock(t) ==
    /\ pc[t] = "buy_stock"
    /\ LET s == Upper(op[t].sym) IN
         IF ~HasStock(s)
           THEN Return(t, "stock_not_found")
           ELSE IF op[t].qty > stocks[s].available_quantity
             THEN Return(t, "insufficient_stock")
             ELSE Goto(t, "buy_user", [op[t] EXCEPT !.price = stocks[s].current_price,
                                                    !.avail = stocks[s].available_quantity])
    /\ NoWrite

\* the funds check compares the balance with price alone
InsufficientBalanceUnitPrice(balance, price, quantity) == balance < price

\* user['balance'] < total_cost (lines 349-351)
InsufficientBalance(balance, price, quantity) == balance < price * quantity

BuyReadUser(t) ==
    /\ pc[t] = "buy_user"
    /\ LET u == op[t].user IN
         IF u \notin Users
           THEN Return(t, "user_not_found")
           ELSE IF InsufficientBalance(users[u].balance, op[t].price, op[t].qty)
             THEN Return(t, "insufficient_balance")
             ELSE Goto(t, "buy_write", [op[t] EXCEPT !.bal = users[u].balance])
    /\ NoWrite

\* new_avg weights the old average with new_qty instead of old_qty
BuyPositionNewQtyWeight(portfolio, quantity, price) ==
    IF portfolio.present
      THEN LET new_qty == portfolio.quantity + quantity
               new_avg == Frac(new_qty * portfolio.avg_n + quantity * price * portfolio.avg_d,
                               portfolio.avg_d * new_qty)
           IN  [present |-> TRUE, quantity |-> new_qty, avg_n |-> new_avg.n, avg_d |-> new_avg.d]
      ELSE [present |-> TRUE, quantity |-> quantity, avg_n |-> price, avg_d |-> 1]

\* the position after a buy of quantity at price (lines 377-392)
BuyPosition(portfolio, quantity, price) ==
    IF portfolio.present
      THEN LET old_qty == portfolio.quantity
               new_qty == old_qty + quantity
               new_avg == Frac(old_qty * portfolio.avg_n + quantity * price * portfolio.avg_d,
                               portfolio.avg_d * new_qty)
           IN  [present |-> TRUE, quantity |-> new_qty, avg_n |-> new_avg.n, avg_d |-> new_avg.d]
      ELSE [present |-> TRUE, quantity |-> quantity, avg_n |-> price, avg_d |-> 1]

BuyFill(portfolio, fill, quantity, price) ==
    IF portfolio.present
      THEN [q |-> fill.q + quantity, c |-> fill.c + quantity * price]
      ELSE [q |-> quantity, c |-> quantity * price]

BuyCommit(t) ==
    /\ pc[t] = "buy_commit"
    /\ writer = t
    /\ writer' = NoWriter
    /\ LET u == op[t].user
           s == Upper(op[t].sym)
           quantity == op[t].qty
           price == op[t].price
           total_cost == price * quantity
           new_balance == op[t].bal - total_cost
           new_available == op[t].avail - quantity
           portfolio == portfolios[u][s]
       IN  IF portfolio.present /\ portfolio.quantity + quantity = 0
             THEN \* ZeroDivisionError in new_avg: rollback, failure returned
                  /\ Return(t, "error")
                  /\ UNCHANGED <<db, fills>>
             ELSE /\ users' = [users EXCEPT ![u].balance = new_balance]
                  /\ stocks' = [stocks EXCEPT ![s].available_quantity = new_available]
                  /\ portfolios' = [portfolios EXCEPT ![u][s] = BuyPosition(portfolio, quantity, price)]
                  /\ transactions' = Append(transactions,
                         [user |-> u, sym |-> s, type |-> "BUY", quantity |-> quantity,
                          price |-> price, total_amount |-> total_cost])
                  /\ fills' = [fills EXCEPT ![u][s] = BuyFill(portfolio, fills[u][s], quantity, price)]
                  /\ Return(t, "ok")
                  /\ UNCHANGED <<price_history, loans>>
    /\ UNCHANGED <<tick_pc, tick_snap, minted, ncalls, nticks, sched, rep, report>>
    /\ Observed

----------------------------------------------------------------------------
\* sell_stock

SellReadStock(t) ==
    /\ pc[t] = "sell_stock"
    /\ LET s == Upper(op[t].sym) IN
         IF ~HasStock(s)
           THEN Return(t, "stock_not_found")
           ELSE Goto(t, "sell_portfolio", [op[t] EXCEPT !.price = stocks[s].current_price,
                                                        !.avail = stocks[s].available_quantity])
    /\ NoWrite

\* the user_portfolios row of (u, s); a user id without a users row has none
PortfolioRow(u, s) == IF u \in Users THEN portfolios[u][s] ELSE NoPos

SellReadPortfolio(t) ==
    /\ pc[t] = "sell_portfolio"
    /\ LET portfolio == PortfolioRow(op[t].user, Upper(op[t].sym)) IN
         IF ~portfolio.present \/ portfolio.quantity < op[t].qty
           THEN Return(t, "insufficient_position")
           ELSE Goto(t, "sell_user", [op[t] EXCEPT !.pqty = portfolio.quantity])
    /\ NoWrite

\* the user's loan_amount is read in place of the balance
SellReadUserLoanColumn(t) ==
    /\ pc[t] = "sell_user"
    /\ Goto(t, "sell_write", [op[t] EXCEPT !.bal = users[op[t].user].loan_amount])
    /\ NoWrite

\* SELECT balance FROM users WHERE id = ? (the sell's read of the seller)
SellReadUser(t) ==
    /\ pc[t] = "sell_user"
    /\ Goto(t, "sell_write", [op[t] EXCEPT !.bal = users[op[t].user].balance])
    /\ NoWrite

\* the sell's UPDATE also rescales avg_buy_price to keep quantity * average
SellPositionRescaled(portfolio, new_portfolio_qty) ==
    IF ~portfolio.present
      THEN portfolio
      ELSE IF new_portfolio_qty = 0
        THEN NoPos
        ELSE LET avg == Frac(portfolio.avg_n * portfolio.quantity,
                             portfolio.avg_d * new_portfolio_qty)
             IN  [portfolio EXCEPT !.quantity = new_portfolio_qty,
                                   !.avg_n = avg.n, !.avg_d = avg.d]

\* the sell always UPDATEs the row, also to quantity 0
SellPositionKeepsEmpty(portfolio, new_portfolio_qty) ==
    IF ~portfolio.present
      THEN portfolio
      ELSE [portfolio EXCEPT !.quantity = new_portfolio_qty]

\* the position after the sell's DELETE or UPDATE (lines 469-476); either
\* statement matches no row when the position has been deleted meanwhile
SellPosition(portfolio, new_portfolio_qty) ==
    IF ~portfolio.present
      THEN portfolio
      ELSE IF new_portfolio_qty = 0
        THEN NoPos
        ELSE [portfolio EXCEPT !.quantity = new_portfolio_qty]

SellCommit(t) ==
    /\ pc[t] = "sell_commit"
    /\ writer = t
    /\ writer' = NoWriter
    /\ LET u == op[t].user
           s == Upper(op[t].sym)
           quantity == op[t].qty
           price == op[t].price
           total_earnings == price * quantity
           new_balance == op[t].bal + total_earnings
           new_portfolio_qty == op[t].pqty - quantity
           new_available == op[t].avail + quantity
           after == SellPosition(portfolios[u][s], new_portfolio_qty)
       IN  /\ users' = [users EXCEPT ![u].balance = new_balance]
           /\ stocks' = [stocks EXCEPT ![s].available_quantity = new_available]
           /\ portfolios' = [portfolios EXCEPT ![u][s] = after]
           /\ transactions' = Append(transactions,
                  [user |-> u, sym |-> s, type |-> "SELL", quantity |-> quantity,
                   price |-> price, total_amount |-> total_earnings])
           /\ fills' = [fills EXCEPT ![u][s] = IF after.present THEN @ ELSE NoFill]
    /\ Return(t, "ok")
    /\ UNCHANGED <<price_history, loans, tick_pc, tick_snap, minted, ncalls, nticks, sched, rep, report>>
    /\ Observed

----------------------------------------------------------------------------
\* take_loan

\* the limit check compares the requested amount alone with max_loan
LoanLimitExceededAmountOnly(current_loan, amount, max_loan) == amount > max_loan

\* current_loan + amount > max_loan (line 291)
LoanLimitExceeded(current_loan, amount, max_loan) == current_loan + amount > max_loan

\* the loan row is inserted and committed before the limit is checked
LoanReadUserWritesFirst(t) ==
    /\ pc[t] = "loan_user"
    /\ LET u == op[t].user
           amount == op[t].qty
       IN  IF u \notin Users
             THEN Return(t, "user_not_found") /\ UNCHANGED loans
             ELSE IF LoanLimitExceeded(users[u].loan_amount, amount, users[u].max_loan)
               THEN /\ Return(t, "loan_limit")
                    /\ loans' = Append(loans, [user |-> u, amount |-> amount])
               ELSE /\ Goto(t, "loan_write", [op[t] EXCEPT !.bal = users[u].balance,
                                                           !.loan = users[u].loan_amount])
                    /\ UNCHANGED loans
    /\ UNCHANGED <<users, stocks, price_history, portfolios, transactions,
                   writer, tick_pc, tick_snap, minted, fills, ncalls, nticks, ext>>

LoanReadUser(t) ==
    /\ pc[t] = "loan_user"
    /\ LET u == op[t].user
           amount == op[t].qty
       IN  IF u \notin Users
             THEN Return(t, "user_not_found")
             ELSE IF LoanLimitExceeded(users[u].loan_amount, amount, users[u].max_loan)
               THEN Return(t, "loan_limit")
               ELSE Goto(t, "loan_write", [op[t] EXCEPT !.bal = users[u].balance,
                                                        !.loan = users[u].loan_amount])
    /\ NoWrite

LoanCommit(t) ==
    /\ pc[t] = "loan_commit"
    /\ writer = t
    /\ writer' = NoWriter
    /\ LET u == op[t].user
           amount == op[t].qty
           new_balance == op[t].bal + amount
           new_loan_amount == op[t].loan + amount
       IN  /\ loans' = Append(loans, [user |-> u, amount |-> amount])
           /\ users' = [users EXCEPT ![u].balance = new_balance,
                                     ![u].loan_amount = new_loan_amount]
    /\ Return(t, "ok")
    /\ UNCHANGED <<stocks, price_history, portfolios, transactions,
                   tick_pc, tick_snap, minted, fills, ncalls, nticks, sched, rep, report>>
    /\ Observed

----------------------------------------------------------------------------
\* register_stock

\* the INSERT into stocks: it needs the write lock, and fails with
\* sqlite3.IntegrityError (caught, transaction dropped by close) when the
\* upper-cased symbol is already there
RegisterInsert(t) ==
    /\ pc[t] = "reg_write"
    /\ writer = NoWriter
    /\ IF HasStock(Upper(op[t].sym))
         THEN /\ Return(t, "exists")
              /\ UNCHANGED writer
         ELSE /\ writer' = t
              /\ Goto(t, "reg_commit", op[t])
    /\ UNCHANGED <<db, tick_pc, tick_snap, minted, fills, ncalls, nticks, ext>>

RegisterCommit(t) ==
    /\ pc[t] = "reg_commit"
    /\ writer = t
    /\ writer' = NoWriter
    /\ LET s == Upper(op[t].sym)
           price == Clamp(op[t].price)
       IN  /\ stocks' = [stocks EXCEPT ![s] = [rowid |-> StockCount + 1, current_price |-> price,
                                               available_quantity |-> op[t].qty]]
           /\ price_history' = Append(price_history, [sym |-> s, price |-> price])
           /\ minted' = [minted EXCEPT ![s] = op[t].qty]
    /\ Return(t, "ok")
    /\ UNCHANGED <<users, portfolios, transactions, loans, tick_pc, tick_snap, fills, ncalls, nticks, sched, rep, report>>
    /\ Observed

----------------------------------------------------------------------------
\* update_stock_prices, as run by the periodic thread or the force-update call

\* SELECT id, current_price FROM stocks
TickRead ==
    /\ tick_pc = "idle"
    /\ nticks < MaxTicks
    /\ nticks' = nticks + 1
    /\ tick_snap' = stocks
    /\ tick_pc' = "tick_write"
    /\ UNCHANGED <<db, writer, pc, op, result, minted, fills, ncalls, ext>>

TickAcquire ==
    /\ tick_pc = "tick_write"
    /\ writer = NoWriter
    /\ writer' = Ticker
    /\ tick_pc' = "tick_commit"
    /\ UNCHANGED <<db, pc, op, result, tick_snap, minted, fills, ncalls, nticks, ext>>

\* the busy timeout at the first UPDATE: update_stock_prices raises
TickBusy ==
    /\ tick_pc = "tick_write"
    /\ writer # NoWriter
    /\ tick_pc' = "idle"
    /\ tick_snap' = [s \in Symbols |-> NoStock]
    /\ UNCHANGED <<db, writer, pc, op, result, minted, fills, ncalls, nticks, ext>>

\* new_price of one stock for a drawn change (in permille), lines 201-205;
\* the product is truncated to whole currency units before the clamp
NewPrice(current_price, change) == Clamp((current_price * (1000 + change)) \div 1000)

\* the rows of the snapshot, in rowid order
SnapCount == Cardinality({ s \in Symbols : tick_snap[s].rowid # 0 })
SnapSymbol(i) == CHOOSE s \in Symbols : tick_snap[s].rowid = i

TickCommit ==
    /\ tick_pc = "tick_commit"
    /\ writer = Ticker
    /\ writer' = NoWriter
    /\ \E change \in [1 .. SnapCount -> Changes] :
         LET new_price(s) == NewPrice(tick_snap[s].current_price, change[tick_snap[s].rowid]) IN
           /\ stocks' = [s \in Symbols |->
                           IF tick_snap[s].rowid # 0
                             THEN [stocks[s] EXCEPT !.current_price = new_price(s)]
                             ELSE stocks[s]]
           /\ price_history' = price_history \o
                  [i \in 1 .. SnapCount |-> [sym |-> SnapSymbol(i), price |-> new_price(SnapSymbol(i))]]
    /\ tick_pc' = "idle"
    /\ tick_snap' = [s \in Symbols |-> NoStock]
    /\ UNCHANGED <<users, portfolios, transactions, loans, pc, op, result, minted, fills, ncalls, nticks, sched, rep, report>>
    /\ Observed

----------------------------------------------------------------------------
\* The system: request threads calling the operations with valid arguments,
\* and price updates

Step(t) ==
    \/ AcquireWriteLock(t)
    \/ Busy(t)
    \/ BuyReadStock(t)
    \/ BuyReadUser(t)
    \/ BuyCommit(t)
    \/ SellReadStock(t)
    \/ SellReadPortfolio(t)
    \/ SellReadUser(t)
    \/ SellCommit(t)
    \/ LoanReadUser(t)
    \/ LoanCommit(t)
    \/ RegisterInsert(t)
    \/ RegisterCommit(t)

Tick == TickRead \/ TickAcquire \/ TickBusy \/ TickCommit

Next ==
    \/ \E t \in Threads : StartCall(t, Requests)
    \/ \E t \in Threads : Step(t)
    \/ Tick

Spec == Init /\ [][Next]_vars

----------------------------------------------------------------------------
\* Sums over the tables

HeldQuantity(s) == SumOver(Users, [u \in Users |-> portfolios[u][s].quantity])

----------------------------------------------------------------------------
\* C1. Conservation of units: for every stock, in every reachable state,
\* available_quantity plus the quantities of all positions in that stock
\* equals the quantity the stock was seeded or registered with.
Conservation ==
    \A s \in Symbols :
        HasStock(s) => stocks[s].available_quantity + HeldQuantity(s) = minted[s]

----------------------------------------------------------------------------
\* C2. No lost update / no overselling: when the only trades on a stock are
\* buys of 1 unit, no more of them succeed than the stock had units (of N
\* concurrent 1-unit buys against inventory I < N exactly I succeed).
UnitBuysOnly(s) ==
    \A i \in 1 .. Len(transactions) :
        transactions[i].sym = s => transactions[i].type = "BUY" /\ transactions[i].quantity = 1

BuyRows(s) ==
    { i \in 1 .. Len(transactions) : transactions[i].sym = s /\ transactions[i].type = "BUY" }

NoLostUpdate ==
    \A s \in Symbols :
        (HasStock(s) /\ UnitBuysOnly(s)) => Cardinality(BuyRows(s)) <= minted[s]

----------------------------------------------------------------------------
\* C3. Non-negative balance: with positive quantities and amounts, every
\* user's balance is >= 0 in every reachable state.
NonNegativeBalance == \A u \in Users : users[u].balance >= 0

\* a buy has spent a user's whole balance
BalanceSpent == \E u \in Users : users[u].balance = 0 /\ Len(transactions) > 0

----------------------------------------------------------------------------
\* C4. Loan bound: every user's loan_amount is <= that user's max_loan in
\* every reachable state.
LoanBound == \A u \in Users : users[u].loan_amount <= users[u].max_loan

\* a user holds a loan and a further loan of that user was refused
LoanGrantedAndRefused ==
    /\ \E u \in Users : users[u].loan_amount > 0
    /\ \E t \in Threads : result[t] = "loan_limit"

----------------------------------------------------------------------------
\* C5. Price bound: in every reachable state, from the seeded data on, each
\* stock's current_price and each price-history price lies in [1, 100].
InRange(p) == MinPrice <= p /\ p <= MaxPrice

PriceBound ==
    /\ \A s \in Symbols : HasStock(s) => InRange(stocks[s].current_price)
    /\ \A i \in 1 .. Len(price_history) : InRange(price_history[i].price)

----------------------------------------------------------------------------
\* C6. Trade/tick isolation: the price recorded in a committed trade's
\* Transaction is the stock's current_price in the committed state right
\* before the trade's commit.
LastTransaction == transactions'[Len(transactions')]

TradeIsolation ==
    [][ Len(transactions') > Len(transactions) =>
            LastTransaction.price = stocks[LastTransaction.sym].current_price ]_vars

----------------------------------------------------------------------------
\* C7. Rejections do not mutate: a call that ends with one of the rejections
\* changes no table; every step that changes a table is the commit of a call
\* that returns success, or of a price update.
Rejections ==
    {"stock_not_found", "insufficient_stock", "user_not_found", "insufficient_balance",
     "insufficient_position", "loan_limit"}

Returns(t, outcomes) == pc[t] # "idle" /\ pc'[t] = "idle" /\ result'[t] \in outcomes

RejectionsDoNotMutate ==
    [][ /\ \A t \in Threads : Returns(t, Rejections) => db' = db
        /\ db' # db => \/ tick_pc = "tick_commit" /\ tick_pc' = "idle"
                       \/ \E t \in Threads : Returns(t, {"ok"}) ]_vars

\* a buy has been refused for insufficient funds and a sell for insufficient
\* position, after a trade was committed
RejectedCalls ==
    /\ \E t \in Threads : result[t] = "insufficient_balance"
    /\ \E t \in Threads : result[t] = "insufficient_position"
    /\ Len(transactions) > 0

----------------------------------------------------------------------------
\* Calls with invalid arguments: the same operations, called with quantities
\* and amounts <= 0 as well

ArgRequests ==
    { Request("buy", "user_1", "AAPL", q, 0) : q \in {-1, 0, 1} }
        \cup { Request("sell", "user_1", "AAPL", q, 0) : q \in {-1, 0} }
        \cup { Request("loan", "user_1", "", a, 0) : a \in {-20000, 0} }
        \cup { Request("register", "", "xyz", 1, 50) }

NextArgs ==
    \/ \E t \in Threads : StartCall(t, ArgRequests)
    \/ \E t \in Threads : Step(t)
    \/ Tick

SpecArgs == Init /\ [][NextArgs]_vars

\* C8. Argument validation: a buy or sell with quantity <= 0 and a takeLoan
\* with amount <= 0 is rejected (it does not succeed) and changes no state.
InvalidCall(t) == op[t].kind \in {"buy", "sell", "loan"} /\ op[t].qty <= 0

ArgumentValidation ==
    [][ \A t \in Threads :
            (InvalidCall(t) /\ pc'[t] # pc[t]) =>
                (db' = db /\ (pc'[t] = "idle" => result'[t] # "ok")) ]_vars

----------------------------------------------------------------------------
\* C9. Weighted-average cost basis for successive buys: when all the trades
\* of a user in a stock are buys q1@p1, q2@p2, ... (no sell), the position
\* has quantity q1+q2+... and avg_buy_price (q1*p1+q2*p2+...)/(q1+q2+...).
TradeRows(u, s) ==
    { i \in 1 .. Len(transactions) : transactions[i].user = u /\ transactions[i].sym = s }

BuysOnly(u, s) ==
    /\ TradeRows(u, s) # {}
    /\ \A i \in TradeRows(u, s) : transactions[i].type = "BUY"

BoughtQuantity(u, s) ==
    SumOver(TradeRows(u, s), [i \in TradeRows(u, s) |-> transactions[i].quantity])
BoughtCost(u, s) ==
    SumOver(TradeRows(u, s), [i \in TradeRows(u, s) |-> transactions[i].total_amount])

WeightedAverage ==
    \A u \in Users, s \in Symbols :
        BuysOnly(u, s) =>
            /\ portfolios[u][s].present
            /\ portfolios[u][s].quantity = BoughtQuantity(u, s)
            /\ portfolios[u][s].avg_n * BoughtQuantity(u, s)
                   = portfolios[u][s].avg_d * BoughtCost(u, s)

\* a user has bought a stock twice, in different quantities at different prices
TwoBuysAtTwoPrices ==
    \E u \in Users, s \in Symbols :
        /\ BuysOnly(u, s)
        /\ \E i, j \in TradeRows(u, s) :
             /\ i < j
             /\ TradeRows(u, s) = {i, j}
             /\ transactions[i].price # transactions[j].price
             /\ transactions[i].quantity # transactions[j].quantity

----------------------------------------------------------------------------
\* C10. Cost basis is the mean of all buy fills, unaffected by sells: the
\* avg_buy_price of every position equals the quantity-weighted mean of the
\* prices of all buy fills made since the position was created.
MeanOfAllFills ==
    \A u \in Users, s \in Symbols :
        portfolios[u][s].present =>
            portfolios[u][s].avg_n * fills[u][s].q = portfolios[u][s].avg_d * fills[u][s].c

\* C10 as amended: a step that leaves a position in place either keeps its
\* avg_buy_price (every sell does), or is a buy of q at p into it, after
\* which avg_buy_price = (old_qty*old_avg + q*p)/(old_qty + q) with old_qty
\* the quantity held before the buy.
SameAverage(a, b) == a.avg_n * b.avg_d = b.avg_n * a.avg_d

BuyInto(u, s) ==
    /\ Len(transactions') = Len(transactions) + 1
    /\ LastTransaction.type = "BUY"
    /\ LastTransaction.user = u
    /\ LastTransaction.sym = s
    /\ portfolios'[u][s].quantity = portfolios[u][s].quantity + LastTransaction.quantity
    /\ portfolios'[u][s].avg_n * portfolios[u][s].avg_d * portfolios'[u][s].quantity
         = portfolios'[u][s].avg_d
             * (portfolios[u][s].quantity * portfolios[u][s].avg_n
                  + LastTransaction.quantity * LastTransaction.price * portfolios[u][s].avg_d)

CostBasisOfHeldUnits ==
    [][ \A u \in Users, s \in Symbols :
            (portfolios[u][s].present /\ portfolios'[u][s].present) =>
                \/ SameAverage(portfolios[u][s], portfolios'[u][s])
                     /\ ~(Len(transactions') > Len(transactions)
                            /\ LastTransaction.type = "BUY"
                            /\ LastTransaction.user = u /\ LastTransaction.sym = s)
                \/ BuyInto(u, s) ]_vars

\* a position was bought, partly sold, and bought into again at another
\* price: its average differs from the mean of all its buy fills
BoughtAfterPartialSell ==
    \E u \in Users, s \in Symbols :
        /\ portfolios[u][s].present
        /\ fills[u][s].q > portfolios[u][s].quantity
        /\ portfolios[u][s].avg_n * fills[u][s].q # portfolios[u][s].avg_d * fills[u][s].c

----------------------------------------------------------------------------
\* C11. Buy/sell round trip: when a user with no position buys q of a stock
\* and then sells q of it, with no price update and no other operation in
\* between, balance and available_quantity are what they were, no position is
\* left, and the only change is the two appended transactions (BUY, SELL)
\* with equal total_amount.
\* The calls of one thread run one after the other, so a history that is two
\* calls of thread t and nothing else (no other thread ever called, no price
\* update started) is such a sequence.
OnlyTwoCallsOf(t) ==
    /\ pc[t] = "idle"
    /\ ncalls = 2
    /\ nticks = 0
    /\ \A o \in Threads \ {t} : pc[o] = "idle" /\ result[o] = "none"

BoughtThenSold ==
    /\ Len(transactions) = 2
    /\ transactions[1].type = "BUY"
    /\ transactions[2].type = "SELL"
    /\ transactions[2].user = transactions[1].user
    /\ transactions[2].sym = transactions[1].sym
    /\ transactions[2].quantity = transactions[1].quantity

RoundTrip ==
    \A t \in Threads :
        (OnlyTwoCallsOf(t) /\ BoughtThenSold) =>
            /\ \A u \in Users : users[u].balance = InitialBalance
            /\ \A s \in Symbols : stocks[s] = IF s \in SeedSymbols THEN SeedStock(s) ELSE NoStock
            /\ \A u \in Users, s \in Symbols : ~portfolios[u][s].present
            /\ transactions[2].total_amount = transactions[1].total_amount
            /\ loans = << >>
            /\ price_history = SeedHistory

\* one thread has bought a stock and sold it again, nothing else has run
RoundTripDone == \E t \in Threads : OnlyTwoCallsOf(t) /\ BoughtThenSold

----------------------------------------------------------------------------
\* Storage failures.  Any statement a call executes after it has taken the
\* write lock (a further UPDATE/INSERT/DELETE, or the commit itself) can raise
\* (disk I/O error, database full, busy at commit).  The call's writes are
\* uncommitted at that point and invisible to every other connection.

FaultRequests ==
    { Request("buy", "user_1", "AAPL", q, 0) : q \in {1, 2} }
        \cup { Request("sell", "user_1", "AAPL", 1, 0),
               Request("loan", "user_1", "", 60000, 0),
               Request("register", "", "xyz", 1, 50) }

\* what the caller gets when a statement raises inside the write transaction:
\* buy_stock and sell_stock catch every Exception, roll back and return a
\* failure; take_loan has no handler and register_stock catches only
\* IntegrityError, so the exception leaves the call
FailureOutcome(kind) == IF kind \in {"buy", "sell"} THEN "error" ELSE "raised"

\* the failing trade returns its message but its UPDATE of users stays
RollbackKeepsBalance(t) ==
    /\ pc[t] \in {"buy_commit", "sell_commit", "loan_commit", "reg_commit"}
    /\ writer = t
    /\ writer' = NoWriter
    /\ Return(t, FailureOutcome(op[t].kind))
    /\ users' = IF op[t].kind \in {"buy", "sell"}
                  THEN [users EXCEPT ![op[t].user].balance =
                           IF op[t].kind = "buy" THEN op[t].bal - op[t].price * op[t].qty
                                                 ELSE op[t].bal + op[t].price * op[t].qty]
                  ELSE users
    /\ UNCHANGED <<stocks, price_history, portfolios, transactions, loans,
                   tick_pc, tick_snap, minted, fills, ncalls, nticks, ext>>

\* a statement raises while the call holds the write lock: the transaction is
\* rolled back (conn.rollback() in the handler, or the close of the
\* connection), which also releases the lock
Rollback(t) ==
    /\ pc[t] \in {"buy_commit", "sell_commit", "loan_commit", "reg_commit"}
    /\ writer = t
    /\ writer' = NoWriter
    /\ Return(t, FailureOutcome(op[t].kind))
    /\ UNCHANGED <<db, tick_pc, tick_snap, minted, fills, ncalls, nticks, ext>>

\* a statement of update_stock_prices raises after its first UPDATE: nothing
\* catches it inside update_stock_prices, the single transaction of the round
\* is never committed
TickFail ==
    /\ tick_pc = "tick_commit"
    /\ writer = Ticker
    /\ tick_pc' = "tick_failed"
    /\ UNCHANGED <<db, writer, pc, op, result, tick_snap, minted, fills, ncalls, nticks, ext>>

\* the abandoned connection is closed when the exception has been handled by
\* the caller: its transaction is rolled back and the lock released
TickRelease ==
    /\ tick_pc = "tick_failed"
    /\ writer' = NoWriter
    /\ tick_pc' = "idle"
    /\ tick_snap' = [s \in Symbols |-> NoStock]
    /\ UNCHANGED <<db, pc, op, result, minted, fills, ncalls, nticks, ext>>

NextFault ==
    \/ \E t \in Threads : StartCall(t, FaultRequests)
    \/ \E t \in Threads : Step(t)
    \/ \E t \in Threads : Rollback(t)
    \/ Tick
    \/ TickFail
    \/ TickRelease

SpecFault == Init /\ [][NextFault]_vars

----------------------------------------------------------------------------
\* C12. All-or-nothing commit: a buy or sell that fails (storage error or
\* lock conflict) commits none of its writes, and a buy or sell that returns
\* success commits all of them in one step; no table changes while a trade
\* is under way except by a commit, so no state shows a trade partly applied.
TradeEnds(t) == op[t].kind \in {"buy", "sell"} /\ pc[t] # "idle" /\ pc'[t] = "idle"

TradeApplied(t) ==
    LET u == op[t].user
        s == Upper(op[t].sym)
        total == op[t].price * op[t].qty
        sign == IF op[t].kind = "buy" THEN -1 ELSE 1
    IN  /\ users'[u].balance = op[t].bal + sign * total
        /\ stocks'[s].available_quantity = op[t].avail + sign * op[t].qty
        /\ Len(transactions') = Len(transactions) + 1
        /\ LastTransaction = [user |-> u, sym |-> s,
                              type |-> IF op[t].kind = "buy" THEN "BUY" ELSE "SELL",
                              quantity |-> op[t].qty, price |-> op[t].price,
                              total_amount |-> total]
        /\ IF op[t].kind = "buy"
             THEN /\ portfolios'[u][s].present
                  /\ portfolios'[u][s].quantity = portfolios[u][s].quantity + op[t].qty
             ELSE \/ ~portfolios'[u][s].present
                        /\ (op[t].pqty = op[t].qty \/ ~portfolios[u][s].present)
                  \/ portfolios'[u][s].present
                        /\ portfolios'[u][s].quantity = op[t].pqty - op[t].qty

AllOrNothing ==
    [][ /\ \A t \in Threads :
              TradeEnds(t) => IF result'[t] = "ok" THEN TradeApplied(t) ELSE db' = db
        /\ <<users, portfolios, transactions>> # <<users', portfolios', transactions'>>
              => \E t \in Threads : Returns(t, {"ok"}) ]_vars

\* a trade has failed inside its write transaction after another trade was
\* committed
TradeRolledBack ==
    /\ \E t \in Threads : result[t] = "error"
    /\ Len(transactions) > 0

----------------------------------------------------------------------------
\* C13. No exception escapes the engine: every call of buy, sell, takeLoan
\* and registerStock, also one that meets a lock timeout or a storage error,
\* returns a structured result; none raises.
NoExceptionEscapes == \A t \in Threads : result[t] # "raised"

----------------------------------------------------------------------------
\* C14. Per-stock failure policy of a price update: when the update of one
\* stock fails, the round is not aborted; the new prices and history rows of
\* the other stocks of that round are committed.  Here: once a round over n
\* >= 2 stocks has failed at one of them, the history holds at least n - 1
\* rows more than the one row per stock that seeding and registration wrote.
TickFailureKeepsOthers ==
    (tick_pc = "tick_failed" /\ SnapCount >= 2)
        => Len(price_history) >= StockCount + SnapCount - 1

----------------------------------------------------------------------------
\* C18. Position lifecycle: under every interleaving of buys and sells with
\* positive quantities each stored position has quantity > 0, and a sell
\* whose new quantity (the quantity it read minus the quantity sold) is 0
\* leaves no position behind.  (user_portfolios is UNIQUE(user_id, stock_id):
\* there is at most one row per user and stock, which is how portfolios is
\* indexed.)
PositiveQuantities ==
    \A u \in Users, s \in Symbols : portfolios[u][s].present => portfolios[u][s].quantity > 0

SellToZero(t) ==
    /\ pc[t] = "sell_commit"
    /\ Returns(t, {"ok"})
    /\ op[t].pqty - op[t].qty = 0

PositionLifecycle ==
    /\ []PositiveQuantities
    /\ [][ \A t \in Threads :
              SellToZero(t) => ~portfolios'[op[t].user][Upper(op[t].sym)].present ]_vars

\* a position of two units has been sold unit by unit and is gone
PositionSoldOut ==
    \E i, j, k \in 1 .. Len(transactions) :
        /\ i < j /\ j < k
        /\ transactions[i].type = "BUY" /\ transactions[i].quantity = 2
        /\ transactions[j].type = "SELL"
        /\ transactions[k].type = "SELL"
        /\ ~portfolios[transactions[k].user][transactions[k].sym].present

----------------------------------------------------------------------------
\* The price-update scheduler: start_price_updates, stop_price_update_thread,
\* the loop of a periodic thread, and update_stock_prices as run by a periodic
\* thread or by a force-price-update request.  upd[r].pc of a periodic thread
\* is "none" (not created), "check" (at the loop test), "select", "write",
\* "commit" (inside update_stock_prices), "sleep" or "dead"; that of a request
\* thread is "none" unless it runs update_stock_prices.

is_alive(p) == p # NoThread /\ upd[p].pc \notin {"none", "dead"}

InFlight(r) == upd[r].pc \in {"select", "write", "commit"}

\* POST /system/start-updates
StartUpdates(t) ==
    /\ pc[t] = "idle"
    /\ ncalls < MaxSchedCalls
    /\ ncalls' = ncalls + 1
    /\ pc' = [pc EXCEPT ![t] = "start_check"]
    /\ op' = [op EXCEPT ![t] = [NoOp EXCEPT !.kind = "start"]]
    /\ quiesced' = FALSE
    /\ clean' = [o \in Threads |-> FALSE]
    /\ UNCHANGED <<db, writer, result, tick_pc, tick_snap, minted, fills, nticks,
                   price_update_thread, stop_price_updates, upd, join_target>>
    /\ UNCHANGED reports

\* if self.price_update_thread is None or not self.price_update_thread.is_alive()
StartCheck(t) ==
    /\ pc[t] = "start_check"
    /\ IF is_alive(price_update_thread)
         THEN Return(t, "started")
         ELSE Goto(t, "start_flag", op[t])
    /\ NoWrite

\* self.stop_price_updates = False
StartFlag(t) ==
    /\ pc[t] = "start_flag"
    /\ stop_price_updates' = FALSE
    /\ Goto(t, "start_thread", op[t])
    /\ UNCHANGED <<db, writer, tick_pc, tick_snap, minted, fills, ncalls, nticks,
                   price_update_thread, upd, join_target, clean, quiesced>>
    /\ UNCHANGED reports

\* the thread start_price_updates creates next: the first one not yet created
NewThread ==
    PeriodicName(CHOOSE i \in 1 .. MaxThreads :
                     /\ PeriodicName(i) \in Periodic
                     /\ upd[PeriodicName(i)].pc = "none"
                     /\ \A j \in 1 .. (i - 1) : upd[PeriodicName(j)].pc # "none")

\* self.price_update_thread = threading.Thread(...); .start()
StartThread(t) ==
    /\ pc[t] = "start_thread"
    /\ \E p \in Periodic : upd[p].pc = "none"
    /\ price_update_thread' = NewThread
    /\ upd' = [upd EXCEPT ![NewThread].pc = "check"]
    /\ Return(t, "started")
    /\ UNCHANGED <<db, writer, tick_pc, tick_snap, minted, fills, ncalls, nticks,
                   stop_price_updates, join_target, clean, quiesced>>
    /\ UNCHANGED reports

\* POST /system/stop-updates
StopUpdates(t) ==
    /\ pc[t] = "idle"
    /\ ncalls < MaxSchedCalls
    /\ ncalls' = ncalls + 1
    /\ pc' = [pc EXCEPT ![t] = "stop_flag"]
    /\ op' = [op EXCEPT ![t] = [NoOp EXCEPT !.kind = "stop"]]
    /\ clean' = [clean EXCEPT ![t] = \A o \in Threads : op[o].kind # "start"]
    /\ UNCHANGED <<db, writer, result, tick_pc, tick_snap, minted, fills, nticks,
                   price_update_thread, stop_price_updates, upd, join_target, quiesced>>
    /\ UNCHANGED reports

\* self.stop_price_updates = True
StopFlag(t) ==
    /\ pc[t] = "stop_flag"
    /\ stop_price_updates' = TRUE
    /\ Goto(t, "stop_join", op[t])
    /\ UNCHANGED <<db, writer, tick_pc, tick_snap, minted, fills, ncalls, nticks,
                   price_update_thread, upd, join_target, clean, quiesced>>
    /\ UNCHANGED reports

\* a stop call returns; from now on the scheduler is to be quiet, unless a
\* start call was running at any time during the stop call
StopReturns(t) ==
    /\ Return(t, "stopped")
    /\ quiesced' = clean[t]
    /\ clean' = [clean EXCEPT ![t] = FALSE]

\* if self.price_update_thread: ... .join() - the thread object to join
StopTarget(t) ==
    /\ pc[t] = "stop_join"
    /\ IF price_update_thread = NoThread
         THEN StopReturns(t) /\ UNCHANGED join_target
         ELSE /\ join_target' = [join_target EXCEPT ![t] = price_update_thread]
              /\ Goto(t, "stop_wait", op[t])
              /\ UNCHANGED <<clean, quiesced>>
    /\ UNCHANGED <<db, writer, tick_pc, tick_snap, minted, fills, ncalls, nticks,
                   price_update_thread, stop_price_updates, upd>>
    /\ UNCHANGED reports

\* join() returns when the joined thread has ended
StopJoin(t) ==
    /\ pc[t] = "stop_wait"
    /\ ~is_alive(join_target[t])
    /\ StopReturns(t)
    /\ join_target' = [join_target EXCEPT ![t] = NoThread]
    /\ UNCHANGED <<db, writer, tick_pc, tick_snap, minted, fills, ncalls, nticks,
                   price_update_thread, stop_price_updates, upd>>
    /\ UNCHANGED reports

\* while not self.stop_price_updates: ... update_stock_prices()
LoopCheck(p) ==
    /\ upd[p].pc = "check"
    /\ IF stop_price_updates
         THEN upd' = [upd EXCEPT ![p].pc = "dead"] /\ UNCHANGED nticks
         ELSE /\ nticks < MaxRounds
              /\ nticks' = nticks + 1
              /\ upd' = [upd EXCEPT ![p].pc = "select"]
    /\ UNCHANGED <<db, writer, pc, op, result, tick_pc, tick_snap, minted, fills, ncalls,
                   price_update_thread, stop_price_updates, join_target, clean, quiesced>>
    /\ UNCHANGED reports

\* time.sleep(300) or time.sleep(60) is over
LoopWake(p) ==
    /\ upd[p].pc = "sleep"
    /\ upd' = [upd EXCEPT ![p].pc = "check"]
    /\ UNCHANGED <<db, writer, pc, op, result, tick_pc, tick_snap, minted, fills, ncalls, nticks,
                   price_update_thread, stop_price_updates, join_target, clean, quiesced>>
    /\ UNCHANGED reports

\* POST /system/force-price-update: the request thread runs update_stock_prices
ForcePriceUpdate(t) ==
    /\ pc[t] = "idle"
    /\ ncalls < MaxSchedCalls
    /\ nticks < MaxRounds
    /\ ncalls' = ncalls + 1
    /\ nticks' = nticks + 1
    /\ pc' = [pc EXCEPT ![t] = "force"]
    /\ op' = [op EXCEPT ![t] = [NoOp EXCEPT !.kind = "force"]]
    /\ upd' = [upd EXCEPT ![t].pc = "select"]
    /\ UNCHANGED <<db, writer, result, tick_pc, tick_snap, minted, fills,
                   price_update_thread, stop_price_updates, join_target, clean, quiesced>>
    /\ UNCHANGED reports

\* SELECT id, current_price FROM stocks
UpdateSelect(r) ==
    /\ upd[r].pc = "select"
    /\ upd' = [upd EXCEPT ![r] = [pc |-> "write", snap |-> stocks]]
    /\ UNCHANGED <<db, writer, pc, op, result, tick_pc, tick_snap, minted, fills, ncalls, nticks,
                   price_update_thread, stop_price_updates, join_target, clean, quiesced>>
    /\ UNCHANGED reports

\* the first UPDATE takes the write lock
UpdateAcquire(r) ==
    /\ upd[r].pc = "write"
    /\ writer = NoWriter
    /\ writer' = r
    /\ upd' = [upd EXCEPT ![r].pc = "commit"]
    /\ UNCHANGED <<db, pc, op, result, tick_pc, tick_snap, minted, fills, ncalls, nticks,
                   price_update_thread, stop_price_updates, join_target, clean, quiesced>>
    /\ UNCHANGED reports

\* the force-price-update call also clears the stop request
UpdateDoneClearsStop(r, outcome) ==
    /\ IF r \in Periodic
         THEN /\ upd' = [upd EXCEPT ![r] = [NoUpdate EXCEPT !.pc = "sleep"]]
              /\ UNCHANGED <<pc, op, result, stop_price_updates>>
         ELSE /\ upd' = [upd EXCEPT ![r] = NoUpdate]
              /\ Return(r, outcome)
              /\ stop_price_updates' = FALSE
    /\ UNCHANGED <<price_update_thread, join_target, clean, quiesced>>

\* update_stock_prices is over: a periodic thread goes to sleep (300 s after
\* a round, 60 s after an exception), the force-price-update call returns
UpdateDone(r, outcome) ==
    /\ IF r \in Periodic
         THEN /\ upd' = [upd EXCEPT ![r] = [NoUpdate EXCEPT !.pc = "sleep"]]
              /\ UNCHANGED <<pc, op, result>>
         ELSE /\ upd' = [upd EXCEPT ![r] = NoUpdate]
              /\ Return(r, outcome)
    /\ UNCHANGED <<price_update_thread, stop_price_updates, join_target, clean, quiesced>>

\* the busy timeout at the first UPDATE: update_stock_prices raises
UpdateBusy(r) ==
    /\ upd[r].pc = "write"
    /\ writer # NoWriter
    /\ UpdateDone(r, "error")
    /\ UNCHANGED <<db, writer, tick_pc, tick_snap, minted, fills, ncalls, nticks>>
    /\ UNCHANGED reports

\* the rows a round read, in rowid order
RowCount(snap) == Cardinality({ s \in Symbols : snap[s].rowid # 0 })
RowSymbol(snap, i) == CHOOSE s \in Symbols : snap[s].rowid = i

\* the history rows carry the price the round read, not the one it wrote
HistoryRowsOldPrice(snap, change) ==
    [i \in 1 .. RowCount(snap) |->
        [sym |-> RowSymbol(snap, i), price |-> snap[RowSymbol(snap, i)].current_price]]

\* INSERT INTO stock_price_history (stock_id, price) VALUES (?, new_price)
HistoryRows(snap, change) ==
    [i \in 1 .. RowCount(snap) |->
        [sym |-> RowSymbol(snap, i),
         price |-> NewPrice(snap[RowSymbol(snap, i)].current_price, change[i])]]

\* all UPDATEs and INSERTs of the round, and conn.commit()
UpdateCommit(r) ==
    /\ upd[r].pc = "commit"
    /\ writer = r
    /\ writer' = NoWriter
    /\ \E change \in [1 .. RowCount(upd[r].snap) -> Changes] :
         LET snap == upd[r].snap IN
           /\ stocks' = [s \in Symbols |->
                           IF snap[s].rowid # 0
                             THEN [stocks[s] EXCEPT !.current_price =
                                      NewPrice(snap[s].current_price, change[snap[s].rowid])]
                             ELSE stocks[s]]
           /\ price_history' = price_history \o HistoryRows(snap, change)
    /\ UpdateDone(r, "ticked")
    /\ UNCHANGED <<users, portfolios, transactions, loans, tick_pc, tick_snap,
                   minted, fills, ncalls, nticks>>
    /\ UNCHANGED <<rep, report>>
    /\ Observed

SchedRequests == { Request("register", "", "xyz", 1, 50) }

NextSched ==
    \/ \E t \in Threads : StartCall(t, SchedRequests)
    \/ \E t \in Threads : RegisterInsert(t) \/ RegisterCommit(t) \/ Busy(t)
    \/ \E t \in Threads : StartUpdates(t) \/ StartCheck(t) \/ StartFlag(t) \/ StartThread(t)
    \/ \E t \in Threads : StopUpdates(t) \/ StopFlag(t) \/ StopTarget(t) \/ StopJoin(t)
    \/ \E t \in Threads : ForcePriceUpdate(t)
    \/ \E p \in Periodic : LoopCheck(p) \/ LoopWake(p)
    \/ \E r \in Runners : UpdateSelect(r) \/ UpdateAcquire(r) \/ UpdateBusy(r) \/ UpdateCommit(r)

SpecSched == Init /\ [][NextSched]_vars

----------------------------------------------------------------------------
\* C15. stop() quiesces the scheduler: when a stop call has returned, no
\* periodic round is in flight, and none is begun (so no periodic price change
\* or history row is committed) until a start call is made.  Stop calls that
\* a start call overlapped are left out of account.
StopQuiesces == quiesced => \A p \in Periodic : ~InFlight(p)

----------------------------------------------------------------------------
\* C16. forceTick is independent of the scheduler: whether the scheduler is
\* stopped or running, a force-price-update call that completes performs
\* exactly one round (one new price and one history row for each stock it
\* read, nothing else), and no step of the call changes the scheduler state
\* (the stop request, the thread reference, the periodic threads).
NewHistory == SubSeq(price_history', Len(price_history) + 1, Len(price_history'))

OneRound(snap) ==
    /\ SubSeq(price_history', 1, Len(price_history)) = price_history
    /\ Len(NewHistory) = RowCount(snap)
    /\ \A s \in Symbols :
          IF snap[s].rowid # 0
            THEN /\ Cardinality({ i \in 1 .. Len(NewHistory) : NewHistory[i].sym = s }) = 1
                 /\ \E i \in 1 .. Len(NewHistory) :
                       /\ NewHistory[i].sym = s
                       /\ NewHistory[i].price = stocks'[s].current_price
                 /\ stocks'[s].available_quantity = stocks[s].available_quantity
            ELSE stocks'[s] = stocks[s]
    /\ UNCHANGED <<users, portfolios, transactions, loans>>

ForceTickIndependent ==
    [][ \A t \in Threads :
          upd'[t] # upd[t] =>
            /\ UNCHANGED <<price_update_thread, stop_price_updates, join_target>>
            /\ \A p \in Periodic : upd'[p] = upd[p]
            /\ IF Returns(t, {"ticked"}) THEN OneRound(upd[t].snap) ELSE db' = db ]_vars

\* a thread has stopped the scheduler and then forced a round, which was
\* committed; nothing else was called
ForcedWhileStopped ==
    \E t \in Threads :
        /\ pc[t] = "idle"
        /\ result[t] = "ticked"
        /\ quiesced
        /\ \A p \in Periodic : ~is_alive(p)
        /\ \A o \in Threads \ {t} : pc[o] = "idle" /\ result[o] = "none"

----------------------------------------------------------------------------
\* C17. Price history tracks every price mutation: seeding, registration and
\* every committed round append exactly one row per stock they write, with
\* the price written; rows are never changed or removed; and in every
\* committed state, concurrent rounds included, the last row appended for a
\* stock carries that stock's current_price.
HistoryRowsOf(s) == { i \in 1 .. Len(price_history) : price_history[i].sym = s }

\* the n-th last row appended for stock s (n = 1: the last one)
RowFromEnd(s, n) ==
    price_history[CHOOSE i \in HistoryRowsOf(s) :
                      Cardinality({ j \in HistoryRowsOf(s) : j >= i }) = n]

LastRowIsCurrent ==
    \A s \in Symbols :
        HasStock(s) =>
            /\ HistoryRowsOf(s) # {}
            /\ RowFromEnd(s, 1).price = stocks[s].current_price

OneRowPerWrite ==
    /\ SubSeq(price_history', 1, Len(price_history)) = price_history
    /\ \A s \in Symbols :
          LET rows == { i \in 1 .. Len(NewHistory) : NewHistory[i].sym = s } IN
            /\ Cardinality(rows) <= 1
            /\ \A i \in rows : NewHistory[i].price = stocks'[s].current_price
            /\ (stocks'[s].rowid # stocks[s].rowid
                   \/ stocks'[s].current_price # stocks[s].current_price) => rows # {}

HistoryTracksPrices == []LastRowIsCurrent /\ [][OneRowPerWrite]_vars

\* two rounds have overlapped (the second read the stocks before the first
\* committed) and both are committed, after a stock was registered
ConcurrentRoundsCommitted ==
    /\ Len(price_history) >= StockCount + 2
    /\ HasStock("XYZ")
    /\ \E s \in Symbols :
          /\ Cardinality(HistoryRowsOf(s)) >= 3
          /\ \A c \in Changes : RowFromEnd(s, 1).price # NewPrice(RowFromEnd(s, 2).price, c)

----------------------------------------------------------------------------
\* The reports: get_user_report, get_stock_report, get_top_users,
\* get_top_stocks, get_stock_history.  Each runs its SELECTs on a connection
\* of its own, outside any transaction: every SELECT reads the state committed
\* at the moment it runs.

ReportKinds == {"user_report", "stock_report", "top_users", "top_stocks", "stock_history"}

ReportPc(kind) ==
    CASE kind = "user_report" -> "rep_user"
      [] kind = "stock_report" -> "rep_stocks"
      [] kind = "top_users" -> "rep_top_users"
      [] kind = "top_stocks" -> "rep_top_stocks"
      [] OTHER -> "rep_history"

ReportUsers == {"user_1", "nobody"}

\* a request thread enters one of the reports
CallReport(t) ==
    /\ pc[t] = "idle"
    /\ ncalls < MaxOps
    /\ ncalls' = ncalls + 1
    /\ \E kind \in ReportKinds, u \in ReportUsers :
         /\ kind # "user_report" => u = "nobody"
         /\ op' = [op EXCEPT ![t] = [NoOp EXCEPT !.kind = kind, !.user = u,
                                                 !.sym = IF kind = "stock_history" THEN "aapl" ELSE ""]]
         /\ pc' = [pc EXCEPT ![t] = ReportPc(kind)]
         /\ cands' = [cands EXCEPT ![t] =
                         IF kind = "user_report" /\ u \in Users
                           THEN {UserReportIn(users, portfolios, stocks, transactions, u)}
                           ELSE {}]
    /\ UNCHANGED <<db, writer, result, tick_pc, tick_snap, minted, fills, nticks,
                   sched, rep, report>>

\* the report call of thread t returns value
ReturnReport(t, value) ==
    /\ Return(t, "ok")
    /\ report' = [report EXCEPT ![t] = value]
    /\ rep' = [rep EXCEPT ![t] = NoRep]
    /\ cands' = [cands EXCEPT ![t] = {}]

NoReportWrite == UNCHANGED <<db, writer, tick_pc, tick_snap, minted, fills, ncalls, nticks, sched>>

\* get_user_report: SELECT username, balance, loan_amount FROM users
UserReportReadUser(t) ==
    /\ pc[t] = "rep_user"
    /\ IF op[t].user \notin Users
         THEN /\ Return(t, "user_not_found")
              /\ UNCHANGED <<rep, report, cands>>
         ELSE /\ rep' = [rep EXCEPT ![t] = [NoRep EXCEPT
                            !.balance = ReadUserRow(users, op[t].user).balance,
                            !.loan_amount = ReadUserRow(users, op[t].user).loan_amount]]
              /\ Goto(t, "rep_portfolio", op[t])
              /\ UNCHANGED <<report, cands>>
    /\ NoReportWrite

\* get_user_report: the SELECT over user_portfolios JOIN stocks
UserReportReadPortfolio(t) ==
    /\ pc[t] = "rep_portfolio"
    /\ LET holdings == ReadHoldings(portfolios, stocks, op[t].user) IN
         rep' = [rep EXCEPT ![t] = [@ EXCEPT !.portfolio_value = holdings.portfolio_value,
                                             !.unrealized_n = holdings.unrealized_n,
                                             !.unrealized_d = holdings.unrealized_d,
                                             !.portfolio = holdings.portfolio]]
    /\ Goto(t, "rep_transactions", op[t])
    /\ UNCHANGED <<report, cands>>
    /\ NoReportWrite

\* get_user_report: the SELECT of the sums over transactions, and the result
UserReportReadTransactions(t) ==
    /\ pc[t] = "rep_transactions"
    /\ ReturnReport(t, MakeUserReport(op[t].user, rep[t], rep[t],
                                      ReadTransactionSums(transactions, op[t].user)))
    /\ NoReportWrite

\* the rows of the LEFT JOIN of stock s with its transactions and its
\* price-history rows: every transaction row paired with every history row
\* (one row with NULLs on a side that has no rows)
StockTransactions(s) == { i \in 1 .. Len(transactions) : transactions[i].sym = s }
StockHistoryRows(s) == { i \in 1 .. Len(price_history) : price_history[i].sym = s }
AtLeastOne(n) == IF n = 0 THEN 1 ELSE n

Max(S) == CHOOSE x \in S : \A y \in S : y <= x
Min(S) == CHOOSE x \in S : \A y \in S : x <= y

\* one row of get_stock_report (lines 593-610)
StockReportRow(s) ==
    LET T == StockTransactions(s)
        H == StockHistoryRows(s)
        buys == { i \in T : transactions[i].type = "BUY" }
        sells == { i \in T : transactions[i].type = "SELL" }
        prices == { price_history[i].price : i \in H }
    IN  [symbol |-> s,
         current_price |-> stocks[s].current_price,
         available_quantity |-> stocks[s].available_quantity,
         transaction_count |-> Cardinality(T) * AtLeastOne(Cardinality(H)),
         total_bought |-> SumOver(buys, [i \in buys |-> transactions[i].quantity])
                              * AtLeastOne(Cardinality(H)),
         total_sold |-> SumOver(sells, [i \in sells |-> transactions[i].quantity])
                            * AtLeastOne(Cardinality(H)),
         max_price |-> IF H = {} THEN 0 ELSE Max(prices),
         min_price |-> IF H = {} THEN 0 ELSE Min(prices)]

\* get_stock_report: its one SELECT
StockReportRead(t) ==
    /\ pc[t] = "rep_stocks"
    /\ ReturnReport(t, [kind |-> "stocks",
                        stocks |-> [s \in { x \in Symbols : HasStock(x) } |-> StockReportRow(s)]])
    /\ NoReportWrite

\* one row of get_top_users (lines 633-656)
TopUserRow(u) ==
    LET value == ReadHoldings(portfolios, stocks, u).portfolio_value
        net_worth == users[u].balance + value - users[u].loan_amount
    IN  [username |-> u, balance |-> users[u].balance, portfolio_value |-> value,
         loan_amount |-> users[u].loan_amount, net_worth |-> net_worth,
         total_pnl |-> net_worth - InitialBalance]

\* users.sort(key=total_pnl, reverse=True): the sort is stable, rows of equal
\* total_pnl keep the order of the result set (here: by name)
RECURSIVE SortedUsers(_)
SortedUsers(S) ==
    IF S = {} THEN << >>
    ELSE LET first == CHOOSE u \in S :
                          \A v \in S : \/ TopUserRow(u).total_pnl > TopUserRow(v).total_pnl
                                        \/ /\ TopUserRow(u).total_pnl = TopUserRow(v).total_pnl
                                           /\ \E i, j \in 1 .. 10 :
                                                 i <= j /\ u = UserName(i) /\ v = UserName(j)
         IN  <<TopUserRow(first)>> \o SortedUsers(S \ {first})

\* get_top_users: its one SELECT (with the default limit of 10)
TopUsersRead(t) ==
    /\ pc[t] = "rep_top_users"
    /\ ReturnReport(t, [kind |-> "top_users", top_users |-> SortedUsers(Users)])
    /\ NoReportWrite

\* the stocks get_top_stocks keeps: HAVING COUNT(sph.id) > 1 over the rows of
\* the join (lines 672-684)
TopStockKept(s) ==
    Cardinality(StockHistoryRows(s)) * AtLeastOne(Cardinality(StockTransactions(s))) > 1

TopStockRow(s) ==
    LET T == StockTransactions(s)
        H == StockHistoryRows(s)
        buys == { i \in T : transactions[i].type = "BUY" }
    IN  [symbol |-> s,
         current_price |-> stocks[s].current_price,
         transaction_count |-> Cardinality(T) * AtLeastOne(Cardinality(H)),
         total_volume |-> SumOver(buys, [i \in buys |-> transactions[i].quantity])
                              * AtLeastOne(Cardinality(H))]

\* get_top_stocks: its one SELECT; the rows kept, before they are ordered
TopStocksRead(t) ==
    /\ pc[t] = "rep_top_stocks"
    /\ ReturnReport(t, [kind |-> "top_stocks",
                        top_stocks |-> [s \in { x \in Symbols : HasStock(x) /\ TopStockKept(x) }
                                          |-> TopStockRow(s)]])
    /\ NoReportWrite

\* the history rows of the stock, the last inserted first (ORDER BY timestamp DESC)
RECURSIVE Descending(_)
Descending(S) ==
    IF S = {} THEN << >>
    ELSE <<price_history[Max(S)].price>> \o Descending(S \ {Max(S)})

\* the call also records the stock's current price in the history
StockHistoryReadAppends(t) ==
    /\ pc[t] = "rep_history"
    /\ ReturnReport(t, [kind |-> "history", symbol |-> Upper(op[t].sym),
                        history |-> Descending(StockHistoryRows(Upper(op[t].sym)))])
    /\ price_history' = Append(price_history,
                               [sym |-> Upper(op[t].sym),
                                price |-> stocks[Upper(op[t].sym)].current_price])
    /\ UNCHANGED <<users, stocks, portfolios, transactions, loans,
                   writer, tick_pc, tick_snap, minted, fills, ncalls, nticks, sched>>

\* get_stock_history(symbol): its one SELECT
StockHistoryRead(t) ==
    /\ pc[t] = "rep_history"
    /\ ReturnReport(t, [kind |-> "history", symbol |-> Upper(op[t].sym),
                        history |-> Descending(StockHistoryRows(Upper(op[t].sym)))])
    /\ NoReportWrite

ReportStep(t) ==
    \/ UserReportReadUser(t)
    \/ UserReportReadPortfolio(t)
    \/ UserReportReadTransactions(t)
    \/ StockReportRead(t)
    \/ TopUsersRead(t)
    \/ TopStocksRead(t)
    \/ StockHistoryRead(t)

ReportRequests ==
    { Request("buy", "user_1", "AAPL", 1, 0),
      Request("sell", "user_1", "AAPL", 1, 0),
      Request("loan", "user_1", "", 60000, 0),
      Request("register", "", "xyz", 1, 50) }

NextReport ==
    \/ \E t \in Threads : StartCall(t, ReportRequests)
    \/ \E t \in Threads : Step(t)
    \/ \E t \in Threads : CallReport(t)
    \/ \E t \in Threads : ReportStep(t)
    \/ Tick

SpecReport == Init /\ [][NextReport]_vars

----------------------------------------------------------------------------
\* C19. Report snapshot consistency: under concurrent trades, loans and price
\* updates, every get_user_report result equals the report computed from one
\* single committed state of the ledger (one of the states committed between
\* the call and its return).
UserReportReturns(t) == pc[t] = "rep_transactions" /\ pc'[t] = "idle"

ReportFromOneState ==
    [][ \A t \in Threads : UserReportReturns(t) => report'[t] \in cands[t] ]_vars

----------------------------------------------------------------------------
\* C20. Reporting is read-only and repeatable: no step of get_user_report,
\* get_stock_report, get_top_users, get_top_stocks or get_stock_history
\* changes a table, and a get_user_report during which nothing that it
\* reports was changed returns exactly the report of the committed state (so
\* two such calls with no mutation in between return the same values).
InReport(t) == op[t].kind \in ReportKinds \/ op'[t].kind \in ReportKinds

ReportsReadOnly ==
    [][ \A t \in Threads :
          /\ (InReport(t) /\ pc'[t] # pc[t]) => db' = db
          /\ (UserReportReturns(t) /\ Cardinality(cands[t]) = 1) =>
                report'[t] = UserReportIn(users, portfolios, stocks, transactions, op[t].user) ]_vars

\* both threads have got the report of the same user after a trade, and the
\* two reports are equal
SameReportTwice ==
    /\ Len(transactions) > 0
    /\ \A t \in Threads : pc[t] = "idle" /\ report[t].kind = "user"
    /\ \A t, o \in Threads : report[t] = report[o]

----------------------------------------------------------------------------
\* The report of a portfolio: user_1 trades two stocks and takes a loan,
\* prices move, and a request thread asks for the report of user_1

PortfolioRequests ==
    { Request("register", "", "xyz", 1, 50),
      Request("buy", "user_1", "AAPL", 1, 0),
      Request("buy", "user_1", "xyz", 1, 0),
      Request("sell", "user_1", "AAPL", 1, 0),
      Request("loan", "user_1", "", 60000, 0) }

\* a request thread enters get_user_report("user_1") (the report is asked
\* for once)
CallUserReport(t) ==
    /\ pc[t] = "idle"
    /\ \A o \in Threads : report[o] = NoReport /\ op[o].kind # "user_report"
    /\ op' = [op EXCEPT ![t] = [NoOp EXCEPT !.kind = "user_report", !.user = "user_1"]]
    /\ pc' = [pc EXCEPT ![t] = ReportPc("user_report")]
    /\ cands' = [cands EXCEPT ![t] =
                    {UserReportIn(users, portfolios, stocks, transactions, "user_1")}]
    /\ UNCHANGED <<db, writer, result, tick_pc, tick_snap, minted, fills, ncalls, nticks,
                   sched, rep, report>>

NextPortfolio ==
    \/ \E t \in Threads : StartCall(t, PortfolioRequests)
    \/ \E t \in Threads : Step(t)
    \/ \E t \in Threads : CallUserReport(t)
    \/ \E t \in Threads : UserReportReadUser(t)
    \/ \E t \in Threads : UserReportReadPortfolio(t)
    \/ \E t \in Threads : UserReportReadTransactions(t)
    \/ Tick

SpecPortfolio == Init /\ [][NextPortfolio]_vars

----------------------------------------------------------------------------
\* C21. userReport formulas: in every ledger state, for every user, the
\* report computed from that state has net_worth = balance + the sum over the
\* user's positions of quantity * current_price - loan_amount, unrealized_pnl
\* = the sum of quantity * (current_price - avg_buy_price), realized_pnl = the
\* sum of the user's SELL total_amount - the sum of the user's BUY
\* total_amount, and total_pnl = net_worth - 10000; a get_user_report call
\* during which nothing was committed returns that report, and every returned
\* report has net_worth = balance + portfolio_value - loan_amount and
\* total_pnl = net_worth - 10000 on its own fields.
Held(u) == { s \in Symbols : portfolios[u][s].present }

PositionsValue(u) ==
    SumOver(Held(u), [s \in Held(u) |-> portfolios[u][s].quantity * stocks[s].current_price])

RECURSIVE ProductOver(_, _)
ProductOver(S, f) ==
    IF S = {} THEN 1
    ELSE LET x == CHOOSE y \in S : TRUE IN f[x] * ProductOver(S \ {x}, f)

\* the product of the denominators of the user's average prices, and the sum
\* of quantity * (current_price - avg_buy_price) multiplied by that product
AvgDenominators(u) == ProductOver(Held(u), [s \in Held(u) |-> portfolios[u][s].avg_d])

UnrealizedScaled(u) ==
    SumOver(Held(u), [s \in Held(u) |->
        portfolios[u][s].quantity
          * (stocks[s].current_price * portfolios[u][s].avg_d - portfolios[u][s].avg_n)
          * (AvgDenominators(u) \div portfolios[u][s].avg_d)])

TransactionTotal(u, type) ==
    LET rows == { i \in 1 .. Len(transactions) :
                      transactions[i].user = u /\ transactions[i].type = type }
    IN  SumOver(rows, [i \in rows |-> transactions[i].total_amount])

ReportFormulas(r, u) ==
    /\ r.net_worth = users[u].balance + PositionsValue(u) - users[u].loan_amount
    /\ r.unrealized_n * AvgDenominators(u) = r.unrealized_d * UnrealizedScaled(u)
    /\ r.realized_pnl = TransactionTotal(u, "SELL") - TransactionTotal(u, "BUY")
    /\ r.total_pnl = r.net_worth - InitialBalance

OwnFormulas(r) ==
    /\ r.net_worth = r.balance + r.portfolio_value - r.loan_amount
    /\ r.total_pnl = r.net_worth - InitialBalance
    /\ r.realized_pnl = r.total_sales - r.total_purchases

UserReportFormulas ==
    /\ [](\A u \in Users :
             ReportFormulas(UserReportIn(users, portfolios, stocks, transactions, u), u))
    /\ [][ \A t \in Threads :
              UserReportReturns(t) =>
                /\ OwnFormulas(report'[t])
                /\ Cardinality(cands[t]) = 1 => ReportFormulas(report'[t], op[t].user) ]_vars

\* a report of two positions, whose prices have moved since they were bought,
\* has been returned
TwoPositionsReported ==
    \E t \in Threads :
        /\ report[t].kind = "user"
        /\ \A s \in Symbols : report[t].portfolio[s].symbol = s
        /\ report[t].unrealized_n # 0
        /\ report[t].total_purchases > 0

----------------------------------------------------------------------------
\* C22. topStocks filter: a stock is in the result of get_top_stocks only if
\* it has more than one price-history row; a stock with exactly one row never
\* appears, however many transactions it has.
TopStocksReturns(t) == pc[t] = "rep_top_stocks" /\ pc'[t] = "idle"

TopStocksFilter ==
    [][ \A t \in Threads :
          TopStocksReturns(t) =>
            \A s \in DOMAIN report'[t].top_stocks : Cardinality(StockHistoryRows(s)) > 1 ]_vars

----------------------------------------------------------------------------
\* C23. stockReport aggregates: for every stock, the transaction_count that
\* get_stock_report returns is the number of the stock's transactions, and
\* total_bought / total_sold are the summed quantities of its BUY / SELL
\* transactions, however many price-history rows the stock has.
StockReportReturns(t) == pc[t] = "rep_stocks" /\ pc'[t] = "idle"

StockQuantity(s, type) ==
    LET rows == { i \in StockTransactions(s) : transactions[i].type = type }
    IN  SumOver(rows, [i \in rows |-> transactions[i].quantity])

StockReportAggregates ==
    [][ \A t \in Threads :
          StockReportReturns(t) =>
            \A s \in DOMAIN report'[t].stocks :
                /\ report'[t].stocks[s].transaction_count = Cardinality(StockTransactions(s))
                /\ report'[t].stocks[s].total_bought = StockQuantity(s, "BUY")
                /\ report'[t].stocks[s].total_sold = StockQuantity(s, "SELL") ]_vars

----------------------------------------------------------------------------
\* C24. registerStock uniqueness: a register_stock call for a symbol that
\* already exists (compared after upper-casing) returns the already-exists
\* failure and leaves stocks and price history unchanged; a successful call
\* adds exactly one stock and exactly one price-history row, for that stock.
RegisterEnds(t) == op[t].kind = "register" /\ pc[t] # "idle" /\ pc'[t] = "idle"

RegisterAdded(s) ==
    /\ ~HasStock(s)
    /\ stocks'[s].rowid # 0
    /\ \A o \in Symbols \ {s} : stocks'[o] = stocks[o]
    /\ price_history' = Append(price_history, [sym |-> s, price |-> stocks'[s].current_price])

RegisterUniqueness ==
    [][ \A t \in Threads :
          RegisterEnds(t) =>
            /\ HasStock(Upper(op[t].sym)) =>
                  result'[t] = "exists" /\ UNCHANGED <<stocks, price_history>>
            /\ result'[t] = "ok" => RegisterAdded(Upper(op[t].sym))
            /\ result'[t] # "ok" => UNCHANGED <<stocks, price_history>> ]_vars

----------------------------------------------------------------------------
\* Scheduling.  Every request is served by a thread of its own, which runs
\* until the call has returned: a call under way always has a next statement
\* it can execute (at its first write it either gets the write lock or, the
\* lock being held, gives up after the busy timeout of its connection), and
\* executes it.  Nothing is assumed about price updates and storage failures.

SpecLive == Init /\ [][NextFault]_vars /\ \A t \in Threads : WF_vars(Step(t))

----------------------------------------------------------------------------
\* C25. Bounded wait, no deadlock: every buy_stock, sell_stock and take_loan
\* call eventually ends (success, business failure or lock conflict), under
\* every interleaving with other trades, loans, registrations and price
\* updates, also when a failed price update keeps the write lock.
BoundedWait ==
    \A t \in Threads : (op[t].kind \in {"buy", "sell", "loan"}) ~> (pc[t] = "idle")

\* a trade has given up on the write lock while another call was committed
ConflictReturned ==
    /\ \E t \in Threads : result[t] = "locked"
    /\ \E t \in Threads : result[t] = "ok"
    /\ Len(transactions) > 0

----------------------------------------------------------------------------
\* C26. Disjoint transactions do not interfere: two trades (buy or sell) by
\* different users on different stocks give, under every interleaving of
\* their steps, the results and the final state of their execution one after
\* the other.  Executed one after the other, neither trade can find the write
\* lock held by the other; so no trade ends in a lock conflict while the lock
\* is held by a trade of another user on another stock.
DisjointTrades(t, o) ==
    /\ op[t].kind \in {"buy", "sell"}
    /\ op[o].kind \in {"buy", "sell"}
    /\ op[t].user # op[o].user
    /\ Upper(op[t].sym) # Upper(op[o].sym)

DisjointNoInterference ==
    [][ \A t \in Threads :
          (TradeEnds(t) /\ \E o \in Threads \ {t} : writer = o /\ DisjointTrades(t, o))
              => result'[t] # "locked" ]_vars

----------------------------------------------------------------------------
\* C27. Single ticker: under every interleaving of start and stop calls
\* (concurrent ones and a start after a stop included) at most one periodic
\* thread is alive, running the loop of _update_prices_periodically, at any
\* time; a start call made while one is alive creates no further thread.
SingleTicker == Cardinality({ p \in Periodic : is_alive(p) }) <= 1

----------------------------------------------------------------------------
\* Scheduling of the price-update scheduler.  A periodic thread that exists
\* keeps running: it leaves its sleep, tests the loop condition and executes
\* the statements of update_stock_prices (at the first UPDATE it gets the
\* write lock or gives up after the busy timeout).  A request thread inside a
\* start, stop or register call executes its next statement; a stop call
\* inside join() goes on when the joined thread has ended.

PeriodicStep(p) ==
    \/ LoopCheck(p)
    \/ LoopWake(p)
    \/ UpdateSelect(p)
    \/ UpdateAcquire(p)
    \/ UpdateBusy(p)
    \/ UpdateCommit(p)

SchedulerStep(t) ==
    \/ StartCheck(t)
    \/ StartFlag(t)
    \/ StartThread(t)
    \/ StopFlag(t)
    \/ StopTarget(t)
    \/ StopJoin(t)
    \/ RegisterInsert(t)
    \/ RegisterCommit(t)
    \/ Busy(t)

SpecSchedLive ==
    /\ Init
    /\ [][NextSched]_vars
    /\ \A p \in Periodic : WF_vars(PeriodicStep(p))
    /\ \A t \in Threads : WF_vars(SchedulerStep(t))

----------------------------------------------------------------------------
\* C28. Tick loop resilience: a round that fails does not end the loop of a
\* periodic thread: the thread sleeps (backs off) and then tests the loop
\* condition again, going into another round unless stop was requested; a
\* periodic thread ends only when it finds the stop request set; and every
\* periodic thread that is alive when a stop call is made eventually ends.
RoundFails(p) == upd[p].pc = "write" /\ upd'[p].pc # "write" /\ writer' = writer

LoopGoesOn(p) ==
    /\ RoundFails(p) => upd'[p].pc = "sleep"
    /\ (upd[p].pc = "sleep" /\ upd'[p].pc # "sleep") => upd'[p].pc = "check"
    /\ (upd[p].pc = "check" /\ upd'[p].pc # "check") =>
           upd'[p].pc = IF stop_price_updates THEN "dead" ELSE "select"
    /\ (is_alive(p) /\ upd'[p].pc = "dead") => stop_price_updates

\* a stop call has been made and is about to set the stop request
StopCalled == \E t \in Threads : pc[t] = "stop_flag"

----------------------------------------------------------------------------
\* C29. Cash ledger identity: in every committed state, under any
\* interleaving of buy, sell and loan calls, each user's balance is 10000 +
\* the amounts of the user's loans + the total_amount of the user's SELL
\* transactions - the total_amount of the user's BUY transactions.
LoanTotal(u) ==
    LET rows == { i \in 1 .. Len(loans) : loans[i].user = u }
    IN  SumOver(rows, [i \in rows |-> loans[i].amount])

CashLedger ==
    \A u \in Users :
        users[u].balance = InitialBalance + LoanTotal(u)
                             + TransactionTotal(u, "SELL") - TransactionTotal(u, "BUY")

----------------------------------------------------------------------------
\* C30. Loan ledger identity: in every committed state, under any
\* interleaving of loan calls (concurrent calls for one user included), each
\* user's loan_amount is the sum of the amounts of the user's loans.
LoanLedger == \A u \in Users : users[u].loan_amount = LoanTotal(u)

====
